---- MODULE Spec2Model ----
(***************************************************************************)
(* TodoZen: the task/group manager (src/src/manager.ts), the pure array    *)
(* transforms of utils.ts, the group management of the preferences window  *)
(* (src/src/prefs.ts) and the panel extension (src/src/extension.ts), over *)
(* the string-array keys "todos" and "groups" of the settings store.       *)
(*                                                                         *)
(* A JSON text is modelled as a function from the keys it spells out to    *)
(* the (string-encoded) values; a parsed object is the total function over *)
(* the keys of its type, with "undefined" for a key the text does not      *)
(* carry.  JSON.stringify drops undefined properties, JSON.parse of a      *)
(* missing array element throws.                                           *)
(***************************************************************************)
EXTENDS Integers, Sequences, FiniteSets, TLC

VARIABLES
    todos,          \* store key "todos": sequence of JSON texts
    groups,         \* store key "groups": sequence of JSON texts
    enableHistory,  \* store key "enable-history"
    tasksCache,     \* TodoListManager._tasksCache
    groupsCache,    \* TodoListManager._groupsCache
    groupsStale,    \* a changed::groups signal of another process' write is still queued for the manager
    todosStale,     \* a changed::todos signal of another process' write is still queued for the shell
    nextTask,       \* number of task ids generated so far
    nextGroup,      \* number of group ids generated so far
    prefs,          \* the preferences window: rendered rows, open dialog, queued changed::groups
    ext,            \* TodoListExtension: fields, registered handlers, rendered rows, filter-group key
    lastOp          \* the call that ran last: arguments, result, store writes and history events

vars == <<todos, groups, enableHistory, tasksCache, groupsCache, groupsStale,
          todosStale, nextTask, nextGroup, prefs, ext, lastOp>>

----------------------------------------------------------------------------
(* Program constants *)

MAX_GROUPS == 10
TASK_VERSION == 1
GROUP_VERSION == 1

(* Bounds of the model *)

MaxTasks == 3
MaxNewGroups == 1
MaxPrefsWrites == 1

----------------------------------------------------------------------------
(* JSON and JavaScript values *)

Undefined == "undefined"

TaskKeys == {"version", "id", "name", "isDone", "isFocused", "groupId"}
GroupKeys == {"version", "id", "name", "color"}

\* JSON.parse(text) read as an object of the given type: a property the text
\* does not carry reads as undefined
JSONparse(text, keys) ==
    [k \in keys |-> IF k \in DOMAIN text THEN text[k] ELSE Undefined]

\* JSON.stringify(obj): undefined properties are left out of the text
JSONstringify(obj) ==
    [k \in {j \in DOMAIN obj : obj[j] # Undefined} |-> obj[k]]

ParseTask(text) == JSONparse(text, TaskKeys)
ParseGroup(text) == JSONparse(text, GroupKeys)

\* JavaScript truthiness of a value
Truthy(v) == v \notin {Undefined, "false", "0", ""}

\* v || d
OrElse(v, d) == IF Truthy(v) THEN v ELSE d

MapSeq(s, F(_)) == [i \in 1..Len(s) |-> F(s[i])]

\* array.splice(at, 0, x) for 0 <= at <= length (0-based position)
InsertAt(s, at, x) == SubSeq(s, 1, at) \o <<x>> \o SubSeq(s, at + 1, Len(s))

\* array.splice(at, 1) for 0 <= at < length (0-based position)
RemoveAt(s, at) == SubSeq(s, 1, at) \o SubSeq(s, at + 2, Len(s))

\* array.filter(keep)
FilterSeq(s, Keep(_)) == SelectSeq(s, Keep)

\* array.findIndex(p), 0-based, -1 when there is none
FindIndex(s, P(_)) ==
    IF \E i \in 1..Len(s) : P(s[i])
    THEN (CHOOSE i \in 1..Len(s) : P(s[i]) /\ \A j \in 1..(i - 1) : ~P(s[j])) - 1
    ELSE -1

TaskId(n) == "task_" \o ToString(n)
GroupId(n) == "group_" \o ToString(n)

NoCache == [set |-> FALSE, val |-> <<>>]
Cached(v) == [set |-> TRUE, val |-> v]

----------------------------------------------------------------------------
(* The shell process: settings store and TodoListManager.                  *)
(* A call is computed on a record s of the store keys, the manager's       *)
(* fields and the effects of the call so far (wr: keys written in order,   *)
(* calls: events passed to _logIfEnabled, log: history events appended,    *)
(* ret: result, inner: what the listeners of changed::todos read while the *)
(* call ran).                                                              *)

\* the extension before enable(): the field initialisers of the class; the
\* key filter-group is empty.  handlers: the signal handlers, keybinding
\* and timeouts registered; rows: the task rows of the list with the task
\* and index each was built for; built: the store value the list was
\* last built from, if it was built; confirmation: the item _activeConfirmation refers to (0:
\* null), timeout: the item the armed timeout was created for (0: none),
\* live: the confirmation items not destroyed, confirmRow: the row the
\* shown confirmation asks about
ExtOff ==
    [mode |-> "off", handlers |-> {}, needsPopulate |-> TRUE, menuOpen |-> FALSE,
     rows |-> <<>>, expanded |-> {}, buttonText |-> 0,
     built |-> <<>>,
     filterGroup |-> "", selectedGroupId |-> "inbox",
     isEditing |-> FALSE, input |-> "",
     confirmation |-> 0, timeout |-> 0, confirmations |-> 0, live |-> {}, clicks |-> 0,
     confirmRow |-> <<>>]

Cur ==
    [todos |-> todos, groups |-> groups, eh |-> enableHistory,
     tc |-> tasksCache, gc |-> groupsCache, nt |-> nextTask, ng |-> nextGroup,
     prefs |-> prefs, ext |-> ext, wr |-> <<>>, log |-> <<>>, ret |-> Undefined, inner |-> <<>>,
     calls |-> <<>>]

\* a manager whose constructor connected changed::groups only (faulty variant)
EmitGroupsOnly(s, key) ==
    IF key = "groups" THEN [s EXCEPT !.gc = NoCache] ELSE s

\* a manager whose constructor connected no changed:: handler (faulty variant)
EmitUnconnected(s, key) == s

\* changed::<key> as delivered inside set_strv to the handlers the manager
\* connected in its constructor; the preferences window runs in another
\* process and gets its changed::groups later
Emit(s, key) ==
    IF key = "todos"
    THEN [s EXCEPT !.tc = NoCache]
    ELSE [s EXCEPT !.gc = NoCache, !.prefs.pending = @ \/ s.prefs.open]

\* GSettings.set_strv(key, value)
SetStrv(s, key, value) ==
    Emit([s EXCEPT ![key] = value, !.wr = Append(@, key)], key)

\* _logIfEnabled without the test of enable-history (faulty variant)
LogAlways(s, action, id) ==
    LET event == [action |-> action, id |-> id, after |-> Len(s.wr)]
    IN  [s EXCEPT !.calls = Append(@, event), !.log = Append(@, event)]

\* TodoListManager._logIfEnabled; an event is recorded with the number of
\* store writes the call had made when it was logged
LogIfEnabled(s, action, id) ==
    LET event == [action |-> action, id |-> id, after |-> Len(s.wr)]
    IN  [s EXCEPT !.calls = Append(@, event),
                  !.log = IF s.eh THEN Append(@, event) ELSE @]

\* TodoListManager._migrateTask; id is what _generateId() returns when called
MigrateTask(raw, id) ==
    IF ~Truthy(raw.version)
    THEN [version |-> ToString(TASK_VERSION), id |-> id, name |-> raw.name,
          isDone |-> raw.isDone, isFocused |-> raw.isFocused, groupId |-> "inbox"]
    ELSE raw

\* TodoListManager._migrateGroup
MigrateGroup(raw) ==
    IF ~Truthy(raw.version)
    THEN [version |-> ToString(GROUP_VERSION), id |-> raw.id, name |-> raw.name,
          color |-> raw.color]
    ELSE raw

\* getParsed without the write-back (faulty variant)
GetParsedUnsaved(s) ==
    IF s.tc.set THEN s
    ELSE LET raw == s.todos
             Legacy(i) == ~Truthy(ParseTask(raw[i]).version)
             Before(i) == Cardinality({j \in 1..(i - 1) : Legacy(j)})
             n == Cardinality({j \in 1..Len(raw) : Legacy(j)})
             tasks == [i \in 1..Len(raw) |->
                         MigrateTask(ParseTask(raw[i]), TaskId(s.nt + Before(i) + 1))]
         IN  [s EXCEPT !.nt = @ + n, !.tc = Cached(tasks)]

\* TodoListManager.getParsed: the state after the call; the value returned is
\* the cache it leaves
GetParsed(s) ==
    IF s.tc.set THEN s
    ELSE LET raw == s.todos
             Legacy(i) == ~Truthy(ParseTask(raw[i]).version)
             Before(i) == Cardinality({j \in 1..(i - 1) : Legacy(j)})
             n == Cardinality({j \in 1..Len(raw) : Legacy(j)})
             tasks == [i \in 1..Len(raw) |->
                         MigrateTask(ParseTask(raw[i]), TaskId(s.nt + Before(i) + 1))]
             s1 == [s EXCEPT !.nt = @ + n]
             s2 == IF n > 0 THEN SetStrv(s1, "todos", MapSeq(tasks, JSONstringify))
                   ELSE s1
         IN  [s2 EXCEPT !.tc = Cached(tasks)]

\* the changed::todos handler of the extension, connected after the
\* manager's: getTotalUndone() reads getParsed()
TodosListener(s) ==
    LET r == GetParsed(s)
    IN  [r EXCEPT !.inner = Append(@, r.tc.val)]

\* TodoListManager.getParsed of the enabled extension: the write-back runs
\* the manager's handler and then the extension's inside set_strv
GetParsedNotified(s) ==
    IF s.tc.set THEN s
    ELSE LET raw == s.todos
             Legacy(i) == ~Truthy(ParseTask(raw[i]).version)
             Before(i) == Cardinality({j \in 1..(i - 1) : Legacy(j)})
             n == Cardinality({j \in 1..Len(raw) : Legacy(j)})
             tasks == [i \in 1..Len(raw) |->
                         MigrateTask(ParseTask(raw[i]), TaskId(s.nt + Before(i) + 1))]
             s1 == [s EXCEPT !.nt = @ + n]
             s2 == IF n > 0
                   THEN TodosListener(SetStrv(s1, "todos", MapSeq(tasks, JSONstringify)))
                   ELSE s1
         IN  [s2 EXCEPT !.tc = Cached(tasks)]

\* countUndoneTasks(tasks, groupId) of utils.ts, on parsed tasks
CountUndoneTasks(tasks, groupId) ==
    Cardinality({k \in 1..Len(tasks) :
                    /\ ~Truthy(groupId) \/ tasks[k].groupId = groupId
                    /\ ~Truthy(tasks[k].isDone)})

\* TodoListManager.getTotalUndone(groupId): the same filter on getParsed()
GetTotalUndone(s, groupId) ==
    LET r == GetParsed(s)
    IN  [r EXCEPT !.ret = ToString(CountUndoneTasks(r.tc.val, groupId))]

\* TodoListManager.getGroups
GetGroups(s) ==
    IF s.gc.set THEN s
    ELSE LET raw == s.groups
             needsSave == \E i \in 1..Len(raw) : ~Truthy(ParseGroup(raw[i]).version)
             gs == [i \in 1..Len(raw) |-> MigrateGroup(ParseGroup(raw[i]))]
             s1 == IF needsSave THEN SetStrv(s, "groups", MapSeq(gs, JSONstringify))
                   ELSE s
         IN  [s1 EXCEPT !.gc = Cached(gs)]

\* insertion that ignores a focused first task (faulty variant)
InsertTaskAtFront(ts, newTaskStr) == <<newTaskStr>> \o ts

\* insertTaskAtCorrectPosition, as inlined in TodoListManager.add
InsertTaskAtCorrectPosition(ts, newTaskStr) ==
    IF Len(ts) > 0
    THEN IF Truthy(ParseTask(ts[1]).isFocused)
         THEN InsertAt(ts, 1, newTaskStr)
         ELSE <<newTaskStr>> \o ts
    ELSE Append(ts, newTaskStr)

\* TodoListManager.add(task, groupId); the argument of the log call reads the
\* group's name through getGroup whether or not history is enabled
ManagerAdd(s, task, groupId) ==
    LET newTask == [version |-> ToString(TASK_VERSION), id |-> TaskId(s.nt + 1),
                    name |-> task, isDone |-> "false", isFocused |-> Undefined,
                    groupId |-> groupId]
        s1 == SetStrv([s EXCEPT !.nt = @ + 1], "todos",
                      InsertTaskAtCorrectPosition(s.todos, JSONstringify(newTask)))
        s2 == IF Truthy(groupId) THEN GetGroups(s1) ELSE s1
    IN  LogIfEnabled(s2, "added", newTask.id)

\* TodoListManager.remove(index): JSON.parse of a missing element throws
ManagerRemove(s, index) ==
    IF Len(s.todos) = 0 THEN s
    ELSE IF index \notin 0..(Len(s.todos) - 1) THEN [s EXCEPT !.ret = "throws"]
    ELSE LET removed == ParseTask(s.todos[index + 1])
         IN  LogIfEnabled(SetStrv(s, "todos", RemoveAt(s.todos, index)),
                          "removed", removed.id)

\* a clearAll that removes the tasks one by one (faulty variant)
ClearAllOneByOne(s) ==
    LogIfEnabled([s EXCEPT !.todos = <<>>, !.tc = NoCache,
                           !.wr = @ \o [k \in 1..Len(s.todos) |-> "todos"]],
                 "cleared_all", Undefined)

\* TodoListManager.clearAll
ManagerClearAll(s) == LogIfEnabled(SetStrv(s, "todos", <<>>), "cleared_all", Undefined)

\* a reorder that shifts the tasks above index down by one instead of
\* swapping (faulty variant)
MoveTaskToFront(ts, index, updatedTask) ==
    IF Truthy(updatedTask.isFocused) /\ index > 0
    THEN <<JSONstringify(updatedTask)>> \o RemoveAt(ts, index)
    ELSE [ts EXCEPT ![index + 1] = JSONstringify(updatedTask)]

\* moveTaskToTop, as inlined in TodoListManager.update
MoveTaskToTop(ts, index, updatedTask) ==
    IF Truthy(updatedTask.isFocused) /\ index > 0
    THEN [ts EXCEPT ![1] = JSONstringify(updatedTask), ![index + 1] = ts[1]]
    ELSE [ts EXCEPT ![index + 1] = JSONstringify(updatedTask)]

\* update that reports the first differing field only (faulty variant)
UpdateLogFirstOnly(s, oldTask, todo) ==
    IF oldTask.name # todo.name THEN LogIfEnabled(s, "renamed", todo.id)
    ELSE IF oldTask.isDone # todo.isDone
    THEN LogIfEnabled(s, IF Truthy(todo.isDone) THEN "completed" ELSE "uncompleted",
                      todo.id)
    ELSE IF oldTask.isFocused # todo.isFocused
    THEN LogIfEnabled(s, IF Truthy(todo.isFocused) THEN "focused" ELSE "unfocused",
                      todo.id)
    ELSE IF oldTask.groupId # todo.groupId
    THEN LogIfEnabled(s, "moved_group", todo.id)
    ELSE s

\* the history events of TodoListManager.update, in order; the group names of
\* moved_group are read through getGroup before the log call
UpdateLog(s, oldTask, todo) ==
    LET s1 == IF oldTask.name # todo.name
              THEN LogIfEnabled(s, "renamed", todo.id) ELSE s
        s2 == IF oldTask.isDone # todo.isDone
              THEN LogIfEnabled(s1, IF Truthy(todo.isDone) THEN "completed"
                                    ELSE "uncompleted", todo.id)
              ELSE s1
        s3 == IF oldTask.isFocused # todo.isFocused
              THEN LogIfEnabled(s2, IF Truthy(todo.isFocused) THEN "focused"
                                    ELSE "unfocused", todo.id)
              ELSE s2
        s4 == IF oldTask.groupId # todo.groupId
              THEN LogIfEnabled(
                     IF Truthy(oldTask.groupId) \/ Truthy(todo.groupId)
                     THEN GetGroups(s3) ELSE s3,
                     "moved_group", todo.id)
              ELSE s3
    IN  s4

\* TodoListManager.update(index, todo)
ManagerUpdate(s, index, todo) ==
    IF Len(s.todos) = 0 THEN s
    ELSE IF index \notin 0..(Len(s.todos) - 1) THEN [s EXCEPT !.ret = "throws"]
    ELSE LET oldTask == ParseTask(s.todos[index + 1])
         IN  UpdateLog(SetStrv(s, "todos", MoveTaskToTop(s.todos, index, todo)),
                       oldTask, todo)

\* a move that takes the tasks of every group (faulty variant)
MoveAllTasksToGroup(ts, fromGroupId, toGroupId) ==
    LET Move(t) == JSONstringify([ParseTask(t) EXCEPT !.groupId = toGroupId])
    IN  MapSeq(ts, Move)

\* moveTasksToGroup, as inlined in TodoListManager.removeGroup
MoveTasksToGroup(ts, fromGroupId, toGroupId) ==
    LET Move(t) ==
            LET task == ParseTask(t)
            IN  JSONstringify(IF task.groupId = fromGroupId
                              THEN [task EXCEPT !.groupId = toGroupId]
                              ELSE task)
    IN  MapSeq(ts, Move)

\* addGroup without the limit (faulty variant)
AddGroupUnlimited(s, name, color) ==
    LET s1 == GetGroups(s)
        id == GroupId(s.ng + 1)
        gs2 == Append(s1.gc.val, [version |-> ToString(GROUP_VERSION), id |-> id,
                                  name |-> name, color |-> color])
        s2 == [s1 EXCEPT !.ng = @ + 1, !.gc = Cached(gs2)]
    IN  [LogIfEnabled(SetStrv(s2, "groups", MapSeq(gs2, JSONstringify)),
                      "group_created", id) EXCEPT !.ret = "true"]

\* addGroup that refuses only above the limit (faulty variant)
AddGroupOffByOne(s, name, color) ==
    LET s1 == GetGroups(s)
    IN  IF Len(s1.gc.val) > MAX_GROUPS THEN [s1 EXCEPT !.ret = "false"]
        ELSE AddGroupUnlimited(s, name, color)

\* TodoListManager.addGroup(name, color): the new group is pushed onto the
\* array getGroups returned, which is the cache
ManagerAddGroup(s, name, color) ==
    LET s1 == GetGroups(s)
        gs == s1.gc.val
        id == GroupId(s.ng + 1)
        newGroup == [version |-> ToString(GROUP_VERSION), id |-> id,
                     name |-> name, color |-> color]
        gs2 == Append(gs, newGroup)
        s2 == [s1 EXCEPT !.ng = @ + 1, !.gc = Cached(gs2)]
    IN  IF Len(gs) >= MAX_GROUPS THEN [s1 EXCEPT !.ret = "false"]
        ELSE [LogIfEnabled(SetStrv(s2, "groups", MapSeq(gs2, JSONstringify)),
                           "group_created", id) EXCEPT !.ret = "true"]

\* TodoListManager.updateGroup(id, name, color)
ManagerUpdateGroup(s, id, name, color) ==
    LET s1 == GetGroups(s)
        gs == s1.gc.val
        HasId(g) == g.id = id
        index == FindIndex(gs, HasId)
        oldName == gs[index + 1].name
        gs2 == [gs EXCEPT ![index + 1] = [version |-> gs[index + 1].version, id |-> id,
                                          name |-> name, color |-> color]]
        s2 == SetStrv([s1 EXCEPT !.gc = Cached(gs2)], "groups", MapSeq(gs2, JSONstringify))
        s3 == IF oldName # name THEN LogIfEnabled(s2, "group_renamed", id) ELSE s2
    IN  IF index = -1 THEN [s1 EXCEPT !.ret = "false"]
        ELSE [s3 EXCEPT !.ret = "true"]

\* removeGroup without the inbox guard (faulty variant)
RemoveGroupUnguarded(s, id) ==
    LET s1 == GetGroups(s)
        gs == s1.gc.val
        Other(g) == g.id # id
        s2 == SetStrv(s1, "todos", s1.todos)
        s3 == SetStrv(s2, "groups", MapSeq(FilterSeq(gs, Other), JSONstringify))
    IN  IF \A i \in 1..Len(gs) : gs[i].id # id THEN [s1 EXCEPT !.ret = "false"]
        ELSE [LogIfEnabled(s3, "group_deleted", id) EXCEPT !.ret = "true"]

\* removeGroup that leaves the tasks of the group as they are (faulty variant)
RemoveGroupKeepingTasks(s, id) ==
    LET s1 == GetGroups(s)
        gs == s1.gc.val
        HasId(g) == g.id = id
        Other(g) == g.id # id
        s2 == SetStrv(s1, "todos", s1.todos)
        s3 == SetStrv(s2, "groups", MapSeq(FilterSeq(gs, Other), JSONstringify))
    IN  IF id = "inbox" THEN [s EXCEPT !.ret = "false"]
        ELSE IF FindIndex(gs, HasId) = -1 THEN [s1 EXCEPT !.ret = "false"]
        ELSE [LogIfEnabled(s3, "group_deleted", id) EXCEPT !.ret = "true"]

\* TodoListManager.removeGroup(id)
ManagerRemoveGroup(s, id) ==
    LET s1 == GetGroups(s)
        gs == s1.gc.val
        HasId(g) == g.id = id
        Other(g) == g.id # id
        s2 == SetStrv(s1, "todos", MoveTasksToGroup(s1.todos, id, "inbox"))
        s3 == SetStrv(s2, "groups", MapSeq(FilterSeq(gs, Other), JSONstringify))
    IN  IF id = "inbox" THEN [s EXCEPT !.ret = "false"]
        ELSE IF FindIndex(gs, HasId) = -1 THEN [s1 EXCEPT !.ret = "false"]
        ELSE [LogIfEnabled(s3, "group_deleted", id) EXCEPT !.ret = "true"]

----------------------------------------------------------------------------
(* The panel extension (src/src/extension.ts) on the record s.  Its        *)
(* changed:: handlers run inside the set_strv that wrote the key, after    *)
(* the manager's; no call of the manager reads the task cache between its  *)
(* write and its return, so the handlers are applied to the state the call *)
(* returns.                                                                *)

Range(f) == {f[i] : i \in DOMAIN f}

\* the changed::todos handler of _enableInternal
SetButtonTextTotal(r) ==
    [r EXCEPT !.ext.needsPopulate = TRUE,
              !.ext.buttonText = CountUndoneTasks(r.tc.val, Undefined)]

ExtTodosChanged(s) ==
    IF "todos" \in s.ext.handlers THEN SetButtonTextTotal(GetParsedNotified(s)) ELSE s

\* the changed::groups and changed::todos handlers of _enableInternal for the
\* keys written since s0
ExtNotify(s0, s) ==
    LET written == {s.wr[i] : i \in (Len(s0.wr) + 1)..Len(s.wr)}
        s1 == IF "groups" \in written /\ "groups" \in s.ext.handlers
              THEN [s EXCEPT !.ext.needsPopulate = TRUE] ELSE s
    IN  IF "todos" \in written THEN ExtTodosChanged(s1) ELSE s1

\* the rows _populate adds for the groups gs[k..], in order
RECURSIVE RenderGroups(_, _, _, _, _)
RenderGroups(indexed, gs, k, filterGroup, expanded) ==
    IF k > Len(gs) THEN <<>>
    ELSE LET InGroup(r) == OrElse(r.task.groupId, "inbox") = gs[k].id
             groupTasks == FilterSeq(indexed, InGroup)
             shown == /\ Len(groupTasks) > 0
                      /\ ~(Truthy(filterGroup) /\ filterGroup # gs[k].id)
                      /\ gs[k].id \in expanded
         IN  (IF shown THEN groupTasks ELSE <<>>)
               \o RenderGroups(indexed, gs, k + 1, filterGroup, expanded)

\* totalUndone of _populate: the undone tasks of every group passed
PopulateUndone(indexed, gs, filterGroup) ==
    Cardinality({p \in (1..Len(indexed)) \X (1..Len(gs)) :
        /\ ~Truthy(indexed[p[1]].task.isDone)
        /\ OrElse(indexed[p[1]].task.groupId, "inbox") = gs[p[2]].id
        /\ ~(Truthy(filterGroup) /\ filterGroup # gs[p[2]].id)})

\* the second half of _populate(updateButtonText), on the state s2 after its
\* reads; destroy_all_children destroys a confirmation item in the list and
\* leaves _activeConfirmation as it is
PopulateRows(s2, updateButtonText) ==
    LET tasks == s2.tc.val
        filterGroup == s2.ext.filterGroup
        gs == s2.gc.val
        InFilter(t) == t.groupId = filterGroup
        filteredTasks == IF Truthy(filterGroup) THEN FilterSeq(tasks, InFilter) ELSE tasks
        indexed == [i \in 1..Len(tasks) |-> [task |-> tasks[i], index |-> i - 1]]
        s3 == [s2 EXCEPT !.ext.live = {},
                         !.ext.built = <<[todos |-> s2.todos, groups |-> s2.groups]>>]
    IN  IF Len(filteredTasks) = 0
        THEN [s3 EXCEPT !.ext.rows = <<>>,
                        !.ext.buttonText = IF updateButtonText THEN 0 ELSE @]
        ELSE [s3 EXCEPT !.ext.rows = RenderGroups(indexed, gs, 1, filterGroup,
                                                  s2.ext.expanded),
                        !.ext.buttonText =
                            IF updateButtonText
                            THEN PopulateUndone(indexed, gs, filterGroup) ELSE @]

\* getGroups() of _populate
PopulateGroups(s1) == ExtNotify(s1, GetGroups(s1))

\* _populate(updateButtonText): getParsed(), getGroups(), then the rows
Populate(s, updateButtonText) ==
    PopulateRows(PopulateGroups(ExtNotify(s, GetParsed(s))), updateButtonText)

\* the statements of _enableInternal in order, in six steps
EnableSteps == 6

EnableStep(s, k) ==
    CASE k = 1 ->  \* getSettings, new PanelMenu.Button, new TodoListManager
           [s EXCEPT !.tc = NoCache, !.gc = NoCache,
                     !.ext.handlers = @ \cup {"m.todos", "m.groups"}]
      [] k = 2 ->  \* buttonText: getTotalUndone()
           LET r == GetParsed(s)
           IN  [r EXCEPT !.ext.buttonText = CountUndoneTasks(r.tc.val, Undefined)]
      [] k = 3 ->  \* _addToPanel, changed::panel-position, changed::popup-width
           [s EXCEPT !.ext.handlers = @ \cup {"panel-position", "popup-width"}]
      [] k = 4 ->  \* _buildPopupMenu
           LET r == GetGroups(s)
           IN  [r EXCEPT !.ext.selectedGroupId = "inbox",
                         !.ext.rows = <<>>, !.ext.built = <<>>,
                         !.ext.expanded = @ \cup {r.gc.val[i].id : i \in 1..Len(r.gc.val)}]
      [] k = 5 ->  \* _toggleShortcut
           [s EXCEPT !.ext.handlers = @ \cup {"keybinding"}]
      [] k = 6 ->  \* changed::groups, changed::todos, open-state-changed
           [s EXCEPT !.ext.needsPopulate = TRUE,
                     !.ext.handlers = @ \cup {"groups", "todos", "menu"}]

RECURSIVE EnableUpTo(_, _)
EnableUpTo(s, k) == IF k = 0 THEN s ELSE EnableStep(EnableUpTo(s, k - 1), k)

\* enable(): _enableInternal, and _enterErrorMode when the first call of
\* step failAt throws (0: nothing throws).  What can throw comes first in
\* its step: getSettings of a missing schema (1, 5), JSON.parse of a stored
\* text (2, 4), addToStatusArea (3)
Enable(s, failAt) ==
    IF failAt = 0 THEN [EnableUpTo(s, EnableSteps) EXCEPT !.ext.mode = "on"]
    ELSE [EnableUpTo(s, failAt - 1) EXCEPT !.ext.mode = "error"]

\* disable() that leaves the manager's handlers connected (faulty variant)
DisableKeepingManager(s) ==
    [s EXCEPT !.ext = [ExtOff EXCEPT !.handlers = s.ext.handlers \cap {"m.todos", "m.groups"}]]

\* disable(): the keybinding is removed unless in error mode, every handler
\* whose id is set is disconnected, the timeout removed, the widgets
\* destroyed, the manager destroyed; _needsPopulate, _isEditing and
\* _selectedGroupId are left as they are
Disable(s) ==
    LET kept == IF s.ext.mode = "error" THEN s.ext.handlers \cap {"keybinding"} ELSE {}
    IN  [s EXCEPT !.ext.handlers = kept,
                  !.ext.timeout = 0,
                  !.ext.confirmation = 0,
                  !.ext.live = {},
                  !.ext.rows = <<>>,
                  !.ext.expanded = {},
                  !.ext.menuOpen = FALSE,
                  !.ext.mode = "off"]

\* the open-state-changed handler of the menu
MenuOpenState(s, isOpen) ==
    IF isOpen /\ s.ext.needsPopulate
    THEN [Populate(s, FALSE) EXCEPT !.ext.needsPopulate = FALSE, !.ext.menuOpen = TRUE,
                                    !.ret = "rebuilt"]
    ELSE [s EXCEPT !.ext.menuOpen = isOpen]

\* !v of JavaScript on a stored boolean
Not(v) == IF Truthy(v) THEN "false" ELSE "true"

\* a handler whose manager call threw ends there; otherwise the handlers of
\* the keys written run and _populate follows
ThenPopulate(s0, s, updateButtonText) ==
    IF s.ret = "throws" THEN s ELSE Populate(ExtNotify(s0, s), updateButtonText)

\* remove(index) and _populate(true)
RemoveThenPopulate(s, index) == ThenPopulate(s, ManagerRemove(s, index), TRUE)

\* toggleCompletionBtn clicked on a row
ToggleCompletion(s, row) ==
    ThenPopulate(s, ManagerUpdate(s, row.index, [row.task EXCEPT !.isDone = Not(@)]), TRUE)

\* focusButton clicked on a row; isFocused is index === 0 && task.isFocused
FocusClicked(s, row) ==
    LET isFocused == row.index = 0 /\ Truthy(row.task.isFocused)
    IN  ThenPopulate(s, ManagerUpdate(s, row.index,
                                      [row.task EXCEPT !.isFocused =
                                          IF isFocused THEN "false" ELSE "true"]),
                     FALSE)

\* removeConfirmation: destroy() of the item _activeConfirmation refers to
\* (ret tells when the item was destroyed already) and null
RemoveConfirmation(s) ==
    IF s.ext.confirmation = 0 THEN s
    ELSE [s EXCEPT !.ext.live = @ \ {s.ext.confirmation},
                   !.ext.confirmation = 0,
                   !.ret = IF s.ext.confirmation \in s.ext.live
                           THEN "destroyed" ELSE "destroyed again"]

\* _createConfirmationDialog for the row: the former item is destroyed, the
\* former timeout removed, a timeout armed for the new item
CreateConfirmationDialog(s, row) ==
    LET s1 == RemoveConfirmation(s)
        item == s1.ext.confirmations + 1
    IN  [s1 EXCEPT !.ext.confirmations = item,
                   !.ext.confirmation = item,
                   !.ext.live = @ \cup {item},
                   !.ext.confirmRow = <<row>>,
                   !.ext.timeout = item,
                   !.ret = Undefined]

\* removeButton clicked on a row: a done task is removed at once, for
\* another the confirmation is shown
RemoveClicked(s, row) ==
    IF Truthy(row.task.isDone)
    THEN RemoveThenPopulate(s, row.index)
    ELSE CreateConfirmationDialog(s, row)

\* confirmBtn clicked: removeConfirmation, then remove(index) and _populate
ConfirmClicked(s) ==
    RemoveThenPopulate([RemoveConfirmation(s) EXCEPT !.ret = Undefined],
                       s.ext.confirmRow[1].index)

\* the callback of the 8 s timeout created for item
ConfirmationTimeout(s) ==
    LET s1 == IF s.ext.confirmation = s.ext.timeout THEN RemoveConfirmation(s) ELSE s
    IN  [s1 EXCEPT !.ext.timeout = 0]

\* _enterEditMode, reached unless the handler ended in an exception
EnterEditMode(s) == IF s.ret = "throws" THEN s ELSE [s EXCEPT !.ext.isEditing = TRUE]

\* renameButton clicked on the row of a task that is not done: _renameTask
RenameClicked(s, row) ==
    IF Truthy(row.task.isDone) THEN s
    ELSE EnterEditMode(RemoveThenPopulate([s EXCEPT !.ext.input = row.task.name],
                                          row.index))

\* the activate handler of the input with the text typed: edit mode is
\* left, a text that is not blank is added to the selected group (_addTask)
InputActivate(s, text) ==
    LET s1 == [s EXCEPT !.ext.isEditing = FALSE]
        s2 == ExtNotify(s1, ManagerAdd(s1, text, s1.ext.selectedGroupId))
    IN  IF text = "" THEN s1
        ELSE [Populate(s2, TRUE) EXCEPT !.ext.input = ""]

\* a filter cycle that wraps to the first group (faulty variant)
NextFilterWrapping(gs, currentFilter) ==
    LET HasId(g) == g.id = currentFilter
    IN  IF Len(gs) = 0 THEN ""
        ELSE gs[((FindIndex(gs, HasId) + 1) % Len(gs)) + 1].id

\* the filter _cycleFilter selects
NextFilter(gs, currentFilter) ==
    LET HasId(g) == g.id = currentFilter
        currentIndex == FindIndex(gs, HasId)
    IN  IF ~Truthy(currentFilter)
        THEN (IF Len(gs) > 0 THEN gs[1].id ELSE currentFilter)
        ELSE IF currentIndex = -1 \/ currentIndex = Len(gs) - 1 THEN ""
        ELSE gs[currentIndex + 2].id

\* setFilterGroup of the filter after the current one, s1 being the state
\* after getGroups()
SetNextFilter(s1) ==
    [s1 EXCEPT !.ext.filterGroup = NextFilter(s1.gc.val, s1.ext.filterGroup)]

\* _cycleFilter
CycleFilter(s) == Populate(SetNextFilter(ExtNotify(s, GetGroups(s))), TRUE)

----------------------------------------------------------------------------
(* The array transforms of utils.ts that the manager does not inline *)

\* task.groupId || 'inbox'
EffectiveGroup(text) == OrElse(ParseTask(text).groupId, "inbox")

\* a move behind the next task of the group, found scanning from index
\* upwards (faulty variant)
MoveTaskBehindNext(ts, index) ==
    IF Len(ts) = 0 \/ index < 0 \/ index >= Len(ts) THEN ts
    ELSE LET same == {i \in (index + 1)..(Len(ts) - 1) :
                        EffectiveGroup(ts[i + 1]) = EffectiveGroup(ts[index + 1])}
         IN  IF same = {} THEN ts
             ELSE LET next == CHOOSE i \in same : \A j \in same : i <= j
                  IN  InsertAt(RemoveAt(ts, index), next, ts[index + 1])

\* a move to the end of the array (faulty variant)
MoveTaskToEndOfArray(ts, index) ==
    IF Len(ts) = 0 \/ index < 0 \/ index >= Len(ts) THEN ts
    ELSE Append(RemoveAt(ts, index), ts[index + 1])

\* moveTaskToEndOfGroup(todos, index)
MoveTaskToEndOfGroup(ts, index) ==
    IF Len(ts) = 0 \/ index < 0 \/ index >= Len(ts) THEN ts
    ELSE LET same == {i \in (index + 1)..(Len(ts) - 1) :
                        EffectiveGroup(ts[i + 1]) = EffectiveGroup(ts[index + 1])}
             lastIndexInGroup ==
                 IF same = {} THEN index
                 ELSE CHOOSE i \in same : \A j \in same : j <= i
         IN  IF lastIndexInGroup = index THEN ts
             ELSE InsertAt(RemoveAt(ts, index), lastIndexInGroup, ts[index + 1])

----------------------------------------------------------------------------
(* The preferences window (another process on the same store)              *)

DEFAULT_COLORS ==
    <<"#3584e4", "#e53935", "#43a047", "#fb8c00", "#8e24aa", "#00acc1", "#6d4c41", "#546e7a">>

NoDialog == [kind |-> "none", index |-> 0, groups |-> <<>>, todos |-> <<>>]

PrefsClosed ==
    [open |-> FALSE, rows |-> <<>>, pending |-> FALSE, dlg |-> NoDialog, writes |-> 0]

\* getGroups of prefs.ts: parsed, not migrated
PrefsGetGroups(raw) == MapSeq(raw, ParseGroup)

\* saveGroups(gs) of prefs.ts followed by renderGroups, which runs on the
\* changed::groups of the window's own write: the rows hold the array just
\* read back, the manager's changed::groups is queued
PrefsSave(gs, dlg) ==
    /\ prefs.writes < MaxPrefsWrites
    /\ groups' = MapSeq(gs, JSONstringify)
    /\ prefs' = [prefs EXCEPT !.rows = PrefsGetGroups(MapSeq(gs, JSONstringify)),
                              !.dlg = dlg, !.writes = @ + 1]
    /\ groupsStale' = TRUE

----------------------------------------------------------------------------
(* Calls of the manager *)

NoTask == [k \in TaskKeys |-> Undefined]

\* what a call found when it started: the length of the task cache for
\* clearAll and changed::todos (-1: none), the number of groups getGroups()
\* yields for addGroup, the number of registered handlers for disable
Pre(op) ==
    IF op \in {"clearAll", "changed::todos"}
    THEN (IF tasksCache.set THEN Len(tasksCache.val) ELSE -1)
    ELSE IF op = "disable" THEN Cardinality(ext.handlers)
    ELSE IF op = "addGroup" THEN Len(GetGroups(Cur).gc.val)
    ELSE 0

\* the state a call leaves, and its record in lastOp
CommitCall(s, op, idx, id, name, task) ==
    /\ todos' = s.todos
    /\ groups' = s.groups
    /\ tasksCache' = s.tc
    /\ groupsCache' = s.gc
    /\ nextTask' = s.nt
    /\ nextGroup' = s.ng
    /\ prefs' = s.prefs
    /\ lastOp' = [op |-> op, idx |-> idx, id |-> id, name |-> name, task |-> task,
                  ret |-> s.ret, wr |-> s.wr, log |-> s.log, pre |-> Pre(op),
                  inner |-> s.inner, calls |-> s.calls]
    /\ ext' = s.ext
    /\ enableHistory' = enableHistory

\* a call in the shell process: no queued signal is delivered meanwhile
Commit(s, op, idx, id, name, task) ==
    /\ CommitCall(s, op, idx, id, name, task)
    /\ UNCHANGED <<groupsStale, todosStale>>

\* manager.add(name, groupId)
AddTask(name, groupId) ==
    /\ nextTask < MaxTasks
    /\ Commit(ManagerAdd(Cur, name, groupId), "add", 0, groupId, name, NoTask)

\* manager.remove(index)
RemoveTask(index) ==
    Commit(ManagerRemove(Cur, index), "remove", index, Undefined, Undefined, NoTask)

\* manager.clearAll()
ClearAll ==
    Commit(ManagerClearAll(Cur), "clearAll", 0, Undefined, Undefined, NoTask)

\* manager.update(index, todo)
UpdateTask(index, todo) ==
    Commit(ManagerUpdate(Cur, index, todo), "update", index, Undefined, Undefined, todo)

\* manager.getParsed()
ReadTasks ==
    Commit(GetParsed(Cur), "getParsed", 0, Undefined, Undefined, NoTask)

\* manager.getParsed() of the enabled extension
ReadTasksNotified ==
    Commit(GetParsedNotified(Cur), "getParsed", 1, Undefined, Undefined, NoTask)

\* manager.getTotalUndone(groupId)
TotalUndone(groupId) ==
    Commit(GetTotalUndone(Cur, groupId), "getTotalUndone", 0, Undefined, groupId, NoTask)

\* manager.getGroups()
ReadGroups ==
    Commit(GetGroups(Cur), "getGroups", 0, Undefined, Undefined, NoTask)

\* manager.addGroup(name, color)
AddGroup(name, color) ==
    /\ nextGroup < MaxNewGroups \/ Len(GetGroups(Cur).gc.val) >= MAX_GROUPS
    /\ Commit(ManagerAddGroup(Cur, name, color), "addGroup", 0, Undefined, name, NoTask)

\* manager.updateGroup(id, name, color)
UpdateGroup(id, name, color) ==
    Commit(ManagerUpdateGroup(Cur, id, name, color), "updateGroup", 0, id, name, NoTask)

\* manager.removeGroup(id)
RemoveGroup(id) ==
    Commit(ManagerRemoveGroup(Cur, id), "removeGroup", 0, id, Undefined, NoTask)

\* the queued changed::groups of a write of the preferences window reaches
\* the manager's handler and the extension's
DeliverGroupsChanged ==
    /\ groupsStale
    /\ groupsStale' = FALSE
    /\ groupsCache' = NoCache
    /\ lastOp' = [op |-> "changed::groups", idx |-> 0, id |-> Undefined, name |-> Undefined,
                  task |-> NoTask, ret |-> Undefined, wr |-> <<>>, log |-> <<>>, pre |-> 0,
                  inner |-> <<>>, calls |-> <<>>]
    /\ ext' = IF "groups" \in ext.handlers THEN [ext EXCEPT !.needsPopulate = TRUE] ELSE ext
    /\ UNCHANGED <<todos, groups, enableHistory, tasksCache, todosStale, nextTask,
                   nextGroup, prefs>>

\* the Task objects a caller that read getParsed() passes to update for the
\* task it read at index: the task as read or one field changed, as the rows
\* of the menu do
Refocus(t) == {t, [t EXCEPT !.isFocused = "true"], [t EXCEPT !.isFocused = "false"]}

Focused(t) == [t EXCEPT !.isFocused = "true"]

\* a Task object for a call whose index names no stored task
StrayTask ==
    [version |-> ToString(TASK_VERSION), id |-> TaskId(0), name |-> "a",
     isDone |-> "false", isFocused |-> "true", groupId |-> "inbox"]

----------------------------------------------------------------------------
(* Initial states *)

InboxGroup == [version |-> ToString(GROUP_VERSION), id |-> "inbox", name |-> "Inbox",
               color |-> DEFAULT_COLORS[1]]

\* a task record written before tasks carried version, id and groupId
LegacyTask == [name |-> "a", isDone |-> "false"]

NoOp == [op |-> "init", idx |-> 0, id |-> Undefined, name |-> Undefined, task |-> NoTask,
         ret |-> Undefined, wr |-> <<>>, log |-> <<>>,
         pre |-> 0, inner |-> <<>>, calls |-> <<>>]

\* after the manager's construction: empty caches, nothing read yet
InitManager ==
    /\ tasksCache = NoCache
    /\ groupsCache = NoCache
    /\ groupsStale = FALSE
    /\ todosStale = FALSE
    /\ nextTask = 0
    /\ nextGroup = 0
    /\ prefs = PrefsClosed
    /\ ext = ExtOff
    /\ lastOp = NoOp

Init ==
    /\ InitManager
    /\ todos \in {<<>>, <<LegacyTask>>}
    /\ groups = <<InboxGroup>>
    /\ enableHistory \in BOOLEAN

TaskIndexes == -1..Len(todos)

Next ==
    \/ AddTask("a", Undefined)
    \/ \E i \in TaskIndexes : RemoveTask(i)
    \/ ClearAll
    \/ ReadTasks
    \/ \E i \in 0..(Len(todos) - 1) :
         /\ tasksCache.set
         /\ \E t \in Refocus(tasksCache.val[i + 1]) : UpdateTask(i, t)
    \/ \E i \in {-1, Len(todos)} : UpdateTask(i, StrayTask)

Spec == Init /\ [][Next]_vars

\* the same calls from an empty task list
InitEmpty == Init /\ todos = <<>>

SpecEmpty == InitEmpty /\ [][Next]_vars

\* add with and without a group, on lists with and without a focused first task
NextAdd ==
    \/ \E g \in {Undefined, "inbox"} : AddTask("a", g)
    \/ RemoveTask(0)
    \/ ReadTasks
    \/ \E i \in 0..(Len(todos) - 1) :
         /\ tasksCache.set
         /\ UpdateTask(i, Focused(tasksCache.val[i + 1]))

SpecAdd == Init /\ [][NextAdd]_vars

----------------------------------------------------------------------------
(* moveTaskToEndOfGroup on arrays of up to MaxMoveLen stored tasks *)

MaxMoveLen == 3

MoveGroupIds == {Undefined, "inbox", "group_01"}

\* the stored task of position k of an input array
MoveTask(k, groupId, isFocused) ==
    JSONstringify([version |-> ToString(TASK_VERSION), id |-> TaskId(k), name |-> "a",
                   isDone |-> "false", isFocused |-> isFocused, groupId |-> groupId])

MoveInputs ==
    UNION {{[k \in 1..n |-> MoveTask(k, g[k], f[k])] :
              g \in [1..n -> MoveGroupIds], f \in [1..n -> {Undefined, "true"}]} :
           n \in 0..MaxMoveLen}

InitMove ==
    /\ InitManager
    /\ todos \in MoveInputs
    /\ groups = <<InboxGroup>>
    /\ enableHistory = FALSE

\* todos = moveTaskToEndOfGroup(todos, index)
MoveToEnd(index) ==
    /\ todos' = MoveTaskToEndOfGroup(todos, index)
    /\ lastOp' = [NoOp EXCEPT !.op = "moveToEnd", !.idx = index,
                              !.id = IF index \in 0..(Len(todos) - 1)
                                     THEN ParseTask(todos[index + 1]).id ELSE Undefined]
    /\ UNCHANGED <<ext, todosStale, groups, enableHistory, tasksCache, groupsCache, groupsStale,
                   nextTask, nextGroup, prefs>>

NextMove == \E i \in -1..Len(todos) : MoveToEnd(i)

SpecMove == InitMove /\ [][NextMove]_vars

----------------------------------------------------------------------------
(* Group management in the preferences window.  Every handler of a row     *)
(* works on the array its renderGroups read (prefs.rows); a dialog keeps    *)
(* the array of the rows it was opened from.  The dialogs are modal.       *)

PrefsOp(op, id, wr) ==
    lastOp' = [op |-> op, idx |-> 0, id |-> id, name |-> Undefined, task |-> NoTask,
               ret |-> Undefined, wr |-> wr, log |-> <<>>, pre |-> Pre(op),
               inner |-> <<>>, calls |-> <<>>]

PrefsIdle == prefs.open /\ prefs.dlg.kind = "none"

\* fillPreferencesWindow: the first renderGroups
OpenPrefs ==
    /\ ~prefs.open
    /\ prefs' = [prefs EXCEPT !.open = TRUE, !.rows = PrefsGetGroups(groups)]
    /\ PrefsOp("prefs.open", Undefined, <<>>)
    /\ UNCHANGED <<ext, todosStale, todos, groups, enableHistory, tasksCache, groupsCache, groupsStale,
                   nextTask, nextGroup>>

\* changed::groups of a write of the manager reaches the window: renderGroups
PrefsGroupsChanged ==
    /\ prefs.open /\ prefs.pending
    /\ prefs' = [prefs EXCEPT !.rows = PrefsGetGroups(groups), !.pending = FALSE]
    /\ PrefsOp("prefs.render", Undefined, <<>>)
    /\ UNCHANGED <<ext, todosStale, todos, groups, enableHistory, tasksCache, groupsCache, groupsStale,
                   nextTask, nextGroup>>

\* addGroupBtn clicked; the button is sensitive while the rows are fewer than
\* MAX_GROUPS, the handler reads the store again
PrefsAddGroup ==
    /\ PrefsIdle
    /\ Len(prefs.rows) < MAX_GROUPS
    /\ LET gs == PrefsGetGroups(groups)
           newGroup == [version |-> "1", id |-> GroupId(nextGroup + 1),
                        name |-> "Group " \o ToString(Len(gs)),
                        color |-> DEFAULT_COLORS[(Len(gs) % Len(DEFAULT_COLORS)) + 1]]
       IN  IF Len(gs) >= MAX_GROUPS
           THEN /\ PrefsOp("prefs.add", Undefined, <<>>)
                /\ UNCHANGED <<ext, todosStale, groups, prefs, groupsStale, nextGroup>>
           ELSE /\ nextGroup < MaxNewGroups
                /\ PrefsSave(Append(gs, newGroup), NoDialog)
                /\ nextGroup' = nextGroup + 1
                /\ PrefsOp("prefs.add", newGroup.id, <<"groups">>)
    /\ UNCHANGED <<ext, todosStale, todos, enableHistory, tasksCache, groupsCache, nextTask>>

\* color-set of the colour button of row index
PrefsSetColor(index, color) ==
    /\ PrefsIdle
    /\ index \in 0..(Len(prefs.rows) - 1)
    /\ PrefsSave([prefs.rows EXCEPT ![index + 1].color = color], NoDialog)
    /\ PrefsOp("prefs.color", prefs.rows[index + 1].id, <<"groups">>)
    /\ UNCHANGED <<ext, todosStale, todos, enableHistory, tasksCache, groupsCache, nextTask, nextGroup>>

\* move up (offset -1, rows but the first) and move down (offset 1, rows but
\* the last) of row index
PrefsMove(index, offset) ==
    /\ PrefsIdle
    /\ index \in 0..(Len(prefs.rows) - 1)
    /\ index + offset \in 0..(Len(prefs.rows) - 1)
    /\ PrefsSave([prefs.rows EXCEPT ![index + offset + 1] = prefs.rows[index + 1],
                                   ![index + 1] = prefs.rows[index + offset + 1]],
                 NoDialog)
    /\ PrefsOp("prefs.move", prefs.rows[index + 1].id, <<"groups">>)
    /\ UNCHANGED <<ext, todosStale, todos, enableHistory, tasksCache, groupsCache, nextTask, nextGroup>>

\* edit button of row index (showEditDialog), delete button of a row that is
\* not inbox (showDeleteDialog)
PrefsOpenDialog(kind, index) ==
    /\ PrefsIdle
    /\ index \in 0..(Len(prefs.rows) - 1)
    /\ kind = "delete" => prefs.rows[index + 1].id # "inbox"
    /\ prefs' = [prefs EXCEPT !.dlg = [kind |-> kind, index |-> index, groups |-> prefs.rows,
                                       todos |-> <<>>]]
    /\ PrefsOp("prefs.dialog", prefs.rows[index + 1].id, <<>>)
    /\ UNCHANGED <<ext, todosStale, todos, groups, enableHistory, tasksCache, groupsCache, groupsStale,
                   nextTask, nextGroup>>

\* response 'cancel' of either dialog
PrefsCancel ==
    /\ prefs.open /\ prefs.dlg.kind # "none"
    /\ prefs' = [prefs EXCEPT !.dlg = NoDialog]
    /\ PrefsOp("prefs.cancel", Undefined, <<>>)
    /\ UNCHANGED <<ext, todosStale, todos, groups, enableHistory, tasksCache, groupsCache, groupsStale,
                   nextTask, nextGroup>>

\* response 'save' of the edit dialog with a non-empty name
PrefsRename(newName) ==
    /\ prefs.open /\ prefs.dlg.kind = "edit"
    /\ PrefsSave([prefs.dlg.groups EXCEPT ![prefs.dlg.index + 1].name = newName], NoDialog)
    /\ PrefsOp("prefs.rename", prefs.dlg.groups[prefs.dlg.index + 1].id, <<"groups">>)
    /\ UNCHANGED <<ext, todosStale, todos, enableHistory, tasksCache, groupsCache, nextTask, nextGroup>>

\* response 'delete' of the delete dialog: only the groups key is written
PrefsDelete ==
    /\ prefs.open /\ prefs.dlg.kind = "delete"
    /\ PrefsSave(RemoveAt(prefs.dlg.groups, prefs.dlg.index), NoDialog)
    /\ PrefsOp("prefs.delete", prefs.dlg.groups[prefs.dlg.index + 1].id, <<"groups">>)
    /\ UNCHANGED <<ext, todosStale, todos, enableHistory, tasksCache, groupsCache, nextTask, nextGroup>>

\* clear button of row index (showClearGroupDialog): the dialog keeps the
\* todos array read when it opened; a group without tasks gets a notice only
PrefsOpenClearDialog(index) ==
    /\ PrefsIdle
    /\ index \in 0..(Len(prefs.rows) - 1)
    /\ \E k \in 1..Len(todos) : EffectiveGroup(todos[k]) = prefs.rows[index + 1].id
    /\ prefs' = [prefs EXCEPT !.dlg = [kind |-> "clear", index |-> index,
                                       groups |-> prefs.rows, todos |-> todos]]
    /\ PrefsOp("prefs.clearDialog", prefs.rows[index + 1].id, <<>>)
    /\ UNCHANGED <<ext, todosStale, todos, groups, enableHistory, tasksCache, groupsCache,
                   groupsStale, nextTask, nextGroup>>

\* response 'clear' of the clear dialog: the tasks of the array the dialog
\* kept that are not in the group are written to todos; the shell's
\* changed::todos is queued
PrefsClear ==
    /\ prefs.open /\ prefs.dlg.kind = "clear"
    /\ prefs.writes < MaxPrefsWrites
    /\ LET id == prefs.dlg.groups[prefs.dlg.index + 1].id
           Remains(t) == EffectiveGroup(t) # id
       IN  /\ todos' = FilterSeq(prefs.dlg.todos, Remains)
           /\ PrefsOp("prefs.clear", id, <<"todos">>)
    /\ prefs' = [prefs EXCEPT !.dlg = NoDialog, !.writes = @ + 1]
    /\ todosStale' = TRUE
    /\ UNCHANGED <<ext, groups, enableHistory, tasksCache, groupsCache, groupsStale,
                   nextTask, nextGroup>>

\* the queued changed::todos of a write of the preferences window reaches
\* the manager's handler and the extension's
DeliverTodosChanged ==
    /\ todosStale
    /\ todosStale' = FALSE
    /\ CommitCall(ExtTodosChanged([Cur EXCEPT !.tc = NoCache]), "changed::todos", 0,
                  "prefs", Undefined, NoTask)
    /\ UNCHANGED groupsStale

----------------------------------------------------------------------------
(* A store with groups and tasks in them *)

InitGroups == 8

OldGroupId(k) == "group_0" \o ToString(k)

OldGroup(k) == [version |-> ToString(GROUP_VERSION), id |-> OldGroupId(k),
                name |-> "Group " \o ToString(k),
                color |-> DEFAULT_COLORS[(k % Len(DEFAULT_COLORS)) + 1]]

OldTask(k, groupId) ==
    JSONstringify([version |-> ToString(TASK_VERSION), id |-> "task_0" \o ToString(k),
                   name |-> "a", isDone |-> "false", isFocused |-> Undefined,
                   groupId |-> groupId])

\* the groups as written by the current version, or as written before groups
\* carried a version
StoredGroups(legacy) ==
    LET gs == <<InboxGroup>> \o [k \in 1..InitGroups |-> OldGroup(k)]
        Text(g) == JSONstringify(IF legacy THEN [g EXCEPT !.version = Undefined] ELSE g)
    IN  MapSeq(gs, Text)

InitG ==
    /\ InitManager
    /\ todos = <<OldTask(1, OldGroupId(1)), OldTask(2, Undefined),
                 OldTask(3, OldGroupId(2)), OldTask(4, OldGroupId(1)),
                 OldTask(5, "inbox")>>
    /\ groups = StoredGroups(TRUE)
    /\ enableHistory = TRUE

GroupArgs == {"inbox", OldGroupId(1), "group_none"}

\* the manager's group calls and the preferences window on the same store
NextP ==
    \/ AddGroup("Work", DEFAULT_COLORS[2])
    \/ \E id \in {"inbox", "group_none"} : UpdateGroup(id, "Work", DEFAULT_COLORS[2])
    \/ \E id \in GroupArgs : RemoveGroup(id)
    \/ ReadGroups
    \/ DeliverGroupsChanged
    \/ OpenPrefs
    \/ PrefsGroupsChanged
    \/ PrefsAddGroup
    \/ PrefsSetColor(0, DEFAULT_COLORS[3])
    \/ \E d \in {-1, 1} : PrefsMove((1 - d) \div 2, d)
    \/ PrefsOpenDialog("edit", 0)
    \/ \E i \in 0..1 : PrefsOpenDialog("delete", i)
    \/ PrefsCancel
    \/ PrefsRename("Home")
    \/ PrefsDelete

SpecPrefs == InitG /\ [][NextP]_vars

----------------------------------------------------------------------------
(* Reads of a store that holds tasks written before tasks carried a version *)

MaxStoredLen == 2

StoredTaskTexts ==
    {[name |-> "a", isDone |-> "false"],
     [name |-> "b", isDone |-> "true", isFocused |-> "true"],
     OldTask(1, "inbox")}

StoredTodos == UNION {[1..n -> StoredTaskTexts] : n \in 0..MaxStoredLen}

InitStored ==
    /\ InitManager
    /\ todos \in StoredTodos
    /\ groups = <<InboxGroup>>
    /\ enableHistory = FALSE

\* a changed::todos that reaches the manager's handler with the store as it is
TodosChanged ==
    /\ tasksCache.set
    /\ tasksCache' = NoCache
    /\ lastOp' = [NoOp EXCEPT !.op = "changed::todos"]
    /\ UNCHANGED <<ext, todosStale, todos, groups, enableHistory, groupsCache, groupsStale,
                   nextTask, nextGroup, prefs>>

NextStored ==
    \/ ReadTasks
    \/ ReadTasksNotified
    \/ TodosChanged
    \/ \E g \in {Undefined, "inbox"} : TotalUndone(g)
    \/ AddTask("a", Undefined)
    \/ RemoveTask(0)

SpecStored == InitStored /\ [][NextStored]_vars

----------------------------------------------------------------------------
\* every mutation of the manager on a store whose groups are of the
\* current version or were written before groups carried a version
InitW ==
    /\ InitManager
    /\ todos = <<OldTask(1, OldGroupId(1)), OldTask(2, Undefined)>>
    /\ groups \in {StoredGroups(TRUE), StoredGroups(FALSE)}
    /\ enableHistory \in BOOLEAN

NextW ==
    \/ \E g \in {Undefined, OldGroupId(1)} : AddTask("a", g)
    \/ RemoveTask(0)
    \/ ClearAll
    \/ /\ Len(todos) > 0
       /\ UpdateTask(0, [ParseTask(todos[1]) EXCEPT !.groupId = "inbox"])
    \/ AddGroup("Work", DEFAULT_COLORS[2])
    \/ UpdateGroup(OldGroupId(1), "Work", DEFAULT_COLORS[2])
    \/ RemoveGroup(OldGroupId(1))
    \/ ReadGroups

SpecWrites == InitW /\ [][NextW]_vars

----------------------------------------------------------------------------
(* The mutations of a manager constructed with enable-history off, and the *)
(* switch of the preferences window bound to enable-history                *)

InitH == InitW /\ enableHistory = FALSE

ToggleHistory ==
    /\ enableHistory' = ~enableHistory
    /\ lastOp' = [NoOp EXCEPT !.op = "enable-history"]
    /\ UNCHANGED <<ext, todosStale, todos, groups, tasksCache, groupsCache, groupsStale,
                   nextTask, nextGroup, prefs>>

NextH ==
    \/ NextW
    \/ ToggleHistory

SpecHistory == InitH /\ [][NextH]_vars

----------------------------------------------------------------------------
(* Edits of one task through update(index, task): the popup passes the     *)
(* index at which it shows the task and the task with the edited fields    *)

EditedId == "task_01"

EditTargets ==
    {[version |-> ToString(TASK_VERSION), id |-> EditedId, name |-> n,
      isDone |-> d, isFocused |-> f, groupId |-> g] :
        n \in {"a", "b"}, d \in {"false", "true"},
        f \in {Undefined, "false", "true"}, g \in {Undefined, OldGroupId(1)}}

InitEdit ==
    /\ InitManager
    /\ todos = <<OldTask(2, "inbox"), OldTask(1, Undefined)>>
    /\ groups \in {StoredGroups(TRUE), StoredGroups(FALSE)}
    /\ enableHistory \in BOOLEAN

NextEdit ==
    \E i \in 0..(Len(todos) - 1), t \in EditTargets :
        /\ ParseTask(todos[i + 1]).id = t.id
        /\ UpdateTask(i, t)

SpecEdit == InitEdit /\ [][NextEdit]_vars

----------------------------------------------------------------------------
(* The manager's caches under its own mutations and the writes of the      *)
(* preferences window                                                      *)

CacheGroups(legacy) ==
    LET gs == <<ParseGroup(InboxGroup), OldGroup(1)>>
        Text(g) == JSONstringify(IF legacy THEN [g EXCEPT !.version = Undefined] ELSE g)
    IN  MapSeq(gs, Text)

InitCache ==
    /\ InitManager
    /\ todos \in {<<OldTask(1, OldGroupId(1))>>, <<LegacyTask>>}
    /\ groups \in {CacheGroups(TRUE), CacheGroups(FALSE)}
    /\ enableHistory = FALSE

NextCache ==
    \/ AddTask("a", Undefined)
    \/ RemoveTask(0)
    \/ ReadTasks
    \/ ReadGroups
    \/ UpdateGroup(OldGroupId(1), "Work", DEFAULT_COLORS[2])
    \/ OpenPrefs
    \/ \E i \in 0..1 : PrefsOpenClearDialog(i)
    \/ PrefsClear
    \/ PrefsOpenDialog("edit", 1)
    \/ PrefsRename("Home")
    \/ DeliverGroupsChanged
    \/ DeliverTodosChanged

SpecCache == InitCache /\ [][NextCache]_vars

----------------------------------------------------------------------------
(* The extension in the shell: enable and disable, the menu, the filter    *)
(* header                                                                  *)

\* enable(); failAt is the step whose first call throws, 0 for none
ExtEnable(failAt) ==
    /\ ext.mode = "off"
    /\ Commit(Enable(Cur, failAt), "enable", failAt, Undefined, Undefined, NoTask)

\* disable()
ExtDisable ==
    /\ ext.mode # "off"
    /\ Commit(Disable(Cur), "disable", 0, Undefined, Undefined, NoTask)

\* the panel button or the keybinding toggles the menu
ToggleMenu ==
    /\ ext.mode = "on"
    /\ Commit(MenuOpenState(Cur, ~ext.menuOpen), "open-state-changed", 0,
              Undefined, Undefined, NoTask)

\* click on the filter header; id is the filter found
ExtCycleFilter ==
    /\ ext.mode = "on" /\ ext.menuOpen
    /\ Commit(CycleFilter(Cur), "cycleFilter", 0, ext.filterGroup, Undefined, NoTask)

\* Enter in the input of the open menu
ExtInput(text) ==
    /\ ext.mode = "on" /\ ext.menuOpen
    /\ text # "" => nextTask < MaxTasks
    /\ Commit(InputActivate(Cur, text), "activate", 0, Undefined, text, NoTask)

\* clicks on the buttons of rows handled in one behaviour
MaxClicks == 2

CanClick == ext.mode = "on" /\ ext.menuOpen /\ ext.clicks < MaxClicks

Clicked(s) == [s EXCEPT !.ext.clicks = @ + 1]

\* removeButton clicked on row k of the open menu
ExtRemoveClick(k) ==
    /\ CanClick
    /\ k \in 1..Len(ext.rows)
    /\ Commit(Clicked(RemoveClicked(Cur, ext.rows[k])), "removeClicked", ext.rows[k].index,
              ext.rows[k].task.id, Undefined, ext.rows[k].task)

\* toggleCompletionBtn clicked on row k of the open menu
ExtToggleDone(k) ==
    /\ CanClick
    /\ k \in 1..Len(ext.rows)
    /\ Commit(Clicked(ToggleCompletion(Cur, ext.rows[k])), "toggleClicked", ext.rows[k].index,
              ext.rows[k].task.id, Undefined, ext.rows[k].task)

\* focusButton clicked on row k of the open menu
ExtFocus(k) ==
    /\ CanClick
    /\ k \in 1..Len(ext.rows)
    /\ Commit(Clicked(FocusClicked(Cur, ext.rows[k])), "focusClicked", ext.rows[k].index,
              ext.rows[k].task.id, Undefined, ext.rows[k].task)

\* renameButton clicked on row k of the open menu
ExtRename(k) ==
    /\ CanClick
    /\ k \in 1..Len(ext.rows)
    /\ Commit(Clicked(RenameClicked(Cur, ext.rows[k])), "renameClicked", ext.rows[k].index,
              ext.rows[k].task.id, Undefined, ext.rows[k].task)

\* confirmBtn clicked on the confirmation item shown
ExtConfirm ==
    /\ ext.mode = "on" /\ ext.menuOpen
    /\ ext.confirmation # 0 /\ ext.confirmation \in ext.live
    /\ Commit(ConfirmClicked(Cur), "confirmClicked", ext.confirmRow[1].index,
              ext.confirmRow[1].task.id, Undefined, ext.confirmRow[1].task)

\* cancelBtn clicked on the confirmation item shown
ExtCancel ==
    /\ ext.mode = "on" /\ ext.menuOpen
    /\ ext.confirmation # 0 /\ ext.confirmation \in ext.live
    /\ Commit(RemoveConfirmation(Cur), "cancelClicked", ext.confirmation, Undefined,
              Undefined, NoTask)

\* key-focus-out of the input: edit mode is left
ExtFocusOut ==
    /\ ext.mode = "on" /\ ext.isEditing
    /\ Commit([Cur EXCEPT !.ext.isEditing = FALSE], "key-focus-out", 0, Undefined,
              ext.input, NoTask)

\* the armed timeout fires
ExtTimeout ==
    /\ ext.timeout # 0
    /\ Commit(ConfirmationTimeout(Cur), "timeout", ext.timeout, Undefined, Undefined, NoTask)

FilterGroups == 2

InitFilter ==
    /\ InitManager
    /\ todos = <<OldTask(1, OldGroupId(1)), OldTask(2, Undefined)>>
    /\ groups = <<InboxGroup>> \o [k \in 1..FilterGroups |-> JSONstringify(OldGroup(k))]
    /\ enableHistory = FALSE

NextFilterCycle ==
    \/ ExtEnable(0)
    \/ ToggleMenu
    \/ ExtCycleFilter
    \/ OpenPrefs
    \/ \E i \in 1..FilterGroups : PrefsOpenDialog("delete", i)
    \/ PrefsDelete
    \/ DeliverGroupsChanged

SpecFilter == InitFilter /\ [][NextFilterCycle]_vars

----------------------------------------------------------------------------
(* The menu of the enabled extension while the preferences window clears   *)
(* a group                                                                 *)

InitMenu ==
    /\ InitManager
    /\ todos = <<OldTask(1, OldGroupId(1)), OldTask(2, Undefined)>>
    /\ groups = CacheGroups(FALSE)
    /\ enableHistory = FALSE

NextLazy ==
    \/ ExtEnable(0)
    \/ ToggleMenu
    \/ ExtInput("b")
    \/ OpenPrefs
    \/ \E i \in 0..1 : PrefsOpenClearDialog(i)
    \/ PrefsClear
    \/ DeliverTodosChanged

SpecLazy == InitMenu /\ [][NextLazy]_vars

\* enable, with or without a throwing step, a delete confirmation, disable
NextLife ==
    \/ \E failAt \in 0..(EnableSteps - 1) : ExtEnable(failAt)
    \/ ExtDisable
    \/ ToggleMenu
    \/ \E k \in 1..Len(ext.rows) : ExtRemoveClick(k)
    \/ ExtTimeout
    \/ ExtInput("b")

SpecLife == InitMenu /\ [][NextLife]_vars

\* clicks on the rows of the open menu while the preferences window clears
\* a group
RowOps == {"toggleClicked", "focusClicked", "removeClicked", "confirmClicked",
           "renameClicked"}

NextRows ==
    \/ ExtEnable(0)
    \/ ToggleMenu
    \/ \E k \in 1..Len(ext.rows) : ExtToggleDone(k)
    \/ \E k \in 1..Len(ext.rows) : ExtFocus(k)
    \/ \E k \in 1..Len(ext.rows) : ExtRemoveClick(k)
    \/ \E k \in 1..Len(ext.rows) : ExtRename(k)
    \/ ExtConfirm
    \/ OpenPrefs
    \/ \E i \in 0..1 : PrefsOpenClearDialog(i)
    \/ PrefsClear
    \/ DeliverTodosChanged

SpecRows == InitMenu /\ [][NextRows]_vars

\* two tasks with names of their own; a rename is committed with the text
\* kept, with a new text, with no text, or abandoned
InitNames ==
    /\ InitManager
    /\ todos = <<[OldTask(1, OldGroupId(1)) EXCEPT !.name = "x"],
                 [OldTask(2, Undefined) EXCEPT !.name = "y"]>>
    /\ groups = CacheGroups(FALSE)
    /\ enableHistory = FALSE

NextRename ==
    \/ ExtEnable(0)
    \/ ToggleMenu
    \/ \E k \in 1..Len(ext.rows) : ExtRename(k)
    \/ \E text \in {"", "b"} : ExtInput(text)
    \/ ext.isEditing /\ ExtInput(ext.input)
    \/ ExtFocusOut

SpecRename == InitNames /\ [][NextRename]_vars

\* the clear dialog of the preferences window open while the extension adds
\* and completes tasks
NextClear ==
    \/ ExtEnable(0)
    \/ ToggleMenu
    \/ ExtInput("b")
    \/ \E k \in 1..Len(ext.rows) : ExtToggleDone(k)
    \/ OpenPrefs
    \/ \E i \in 0..1 : PrefsOpenClearDialog(i)
    \/ PrefsClear
    \/ DeliverTodosChanged

SpecClear == InitMenu /\ [][NextClear]_vars

\* the count on the panel button under menu actions, a filter and writes of
\* the preferences window
NextCount ==
    \/ ExtEnable(0)
    \/ ExtDisable
    \/ ToggleMenu
    \/ ExtCycleFilter
    \/ \E k \in 1..Len(ext.rows) : ExtToggleDone(k)
    \/ \E k \in 1..Len(ext.rows) : ExtFocus(k)
    \/ OpenPrefs
    \/ \E i \in 0..1 : PrefsOpenClearDialog(i)
    \/ PrefsClear
    \/ DeliverTodosChanged

SpecCount == InitMenu /\ [][NextCount]_vars

\* delete confirmations: shown, cancelled, confirmed, timed out, destroyed
\* by a rebuild of the list or by disable
NextConfirm ==
    \/ ExtEnable(0)
    \/ ExtDisable
    \/ ToggleMenu
    \/ \E k \in 1..Len(ext.rows) : ExtRemoveClick(k)
    \/ \E k \in 1..Len(ext.rows) : ExtToggleDone(k)
    \/ ExtConfirm
    \/ ExtCancel
    \/ ExtTimeout

SpecConfirm == InitMenu /\ [][NextConfirm]_vars

----------------------------------------------------------------------------
(* The manager's task and group calls on a store whose tasks are in stored *)
(* groups; add and update are given ids of stored groups                   *)

StoredGroupIds == {ParseGroup(groups[k]).id : k \in 1..Len(groups)}

InitIntegrity ==
    /\ InitManager
    /\ todos = <<>>
    /\ \E legacy \in BOOLEAN : groups = CacheGroups(legacy)
    /\ enableHistory = FALSE

NextIntegrity ==
    \/ \E g \in StoredGroupIds \cup {Undefined} : AddTask("a", g)
    \/ \E i \in 0..(Len(todos) - 1), g \in StoredGroupIds \cup {Undefined} :
           UpdateTask(i, [ParseTask(todos[i + 1]) EXCEPT !.groupId = g])
    \/ AddGroup("Work", DEFAULT_COLORS[2])
    \/ UpdateGroup(OldGroupId(1), "Work", DEFAULT_COLORS[2])
    \/ \E id \in StoredGroupIds : RemoveGroup(id)

SpecIntegrity == InitIntegrity /\ [][NextIntegrity]_vars

----------------------------------------------------------------------------
(* Properties *)

FocusedIndexes == {i \in 1..Len(todos) : ParseTask(todos[i]).isFocused = "true"}

\* C1: in every state reached from an empty task list at most one stored
\* task has isFocused = true.
SingleFocus == Cardinality(FocusedIndexes) <= 1

\* C2: in every reachable state no task at an index greater than 0 has
\* isFocused = true.
FocusOnlyAtTop == FocusedIndexes \subseteq {1}

\* C3: add(name, groupId) inserts exactly one new task (the given name and
\* groupId, isDone false, the current version) at index 1 when the task at
\* index 0 is focused and at index 0 otherwise; the tasks stored before keep
\* their text and their order.
AddPosition ==
    [][lastOp'.op = "add" =>
         LET at == IF Len(todos) > 0 /\ ParseTask(todos[1]).isFocused = "true"
                   THEN 1 ELSE 0
             new == ParseTask(todos'[at + 1])
         IN  /\ Len(todos') = Len(todos) + 1
             /\ new.name = lastOp'.name
             /\ new.groupId = lastOp'.id
             /\ new.isDone = "false"
             /\ new.version = ToString(TASK_VERSION)
             /\ RemoveAt(todos', at) = todos]_vars

\* an add with a group put the new task behind a focused first task
AddedBehindFocused ==
    /\ lastOp.op = "add" /\ lastOp.id = "inbox"
    /\ Len(todos) >= 3
    /\ ParseTask(todos[1]).isFocused = "true"
    /\ ParseTask(todos[2]).id = TaskId(nextTask)
    /\ ParseTask(todos[2]).groupId = "inbox"

ManagerView == IF groupsCache.set THEN groupsCache.val ELSE MapSeq(groups, ParseGroup)

\* C5: removeGroup("inbox") returns false and writes neither key; removeGroup
\* of another group the manager knows returns true, no stored group has the
\* id afterwards, every task that had the groupId has groupId "inbox" and is
\* otherwise the same, every other task keeps its text and its position.
RemoveGroupMovesTasks ==
    [][lastOp'.op = "removeGroup" =>
         LET id == lastOp'.id
         IN  IF id = "inbox"
             THEN /\ lastOp'.ret = "false" /\ lastOp'.wr = <<>>
                  /\ todos' = todos /\ groups' = groups
             ELSE (\E k \in 1..Len(ManagerView) : ManagerView[k].id = id) =>
                  /\ lastOp'.ret = "true"
                  /\ \A k \in 1..Len(groups') : ParseGroup(groups'[k]).id # id
                  /\ Len(todos') = Len(todos)
                  /\ \A i \in 1..Len(todos) :
                       IF ParseTask(todos[i]).groupId = id
                       THEN ParseTask(todos'[i]) =
                              [ParseTask(todos[i]) EXCEPT !.groupId = "inbox"]
                       ELSE todos'[i] = todos[i]]_vars

\* a group with two tasks was removed: both are in inbox, the task of
\* another group between them stayed where it was
RemovedGroupWithTasks ==
    /\ lastOp.op = "removeGroup" /\ lastOp.id = OldGroupId(1) /\ lastOp.ret = "true"
    /\ ParseTask(todos[1]).groupId = "inbox"
    /\ ParseTask(todos[4]).groupId = "inbox"
    /\ ParseTask(todos[3]).groupId = OldGroupId(2)

\* C6: after the delete dialog of the preferences window deleted a group no
\* task has the deleted group's id as its groupId.
DeletedGroupHasNoTasks ==
    lastOp.op = "prefs.delete" =>
        \A i \in 1..Len(todos) : ParseTask(todos[i]).groupId # lastOp.id

\* C7: the stored groups always contain a group with id "inbox".
InboxPresent == \E k \in 1..Len(groups) : ParseGroup(groups[k]).id = "inbox"

\* the delete dialog removed a group, and removeGroup("inbox") was refused
InboxKept ==
    /\ InboxPresent
    /\ \/ lastOp.op = "prefs.delete" /\ Len(groups) = InitGroups
       \/ lastOp.op = "removeGroup" /\ lastOp.id = "inbox" /\ lastOp.ret = "false"
          /\ prefs.writes > 0

\* C8: the stored groups are never more than MAX_GROUPS.
AtMostMaxGroups == Len(groups) <= MAX_GROUPS

\* the add button of a window whose rows were read before the manager filled
\* the last place: the handler read MAX_GROUPS groups and wrote nothing
AddClickRefused ==
    /\ lastOp.op = "prefs.add" /\ lastOp.wr = <<>>
    /\ Len(groups) = MAX_GROUPS
    /\ Len(prefs.rows) < MAX_GROUPS

GroupEntry(g) == <<g.id, g.name, g.color>>

GroupEntryOfText(text) == GroupEntry(ParseGroup(text))

\* C9, as stated: when getGroups() yields MAX_GROUPS groups addGroup returns
\* false, writes no key, logs nothing and leaves the stored groups and the
\* cached groups as they were.
AddGroupAtLimitWritesNothing ==
    [][lastOp'.op = "addGroup" /\ Len(ManagerView) = MAX_GROUPS =>
         /\ lastOp'.ret = "false"
         /\ lastOp'.wr = <<>>
         /\ lastOp'.log = <<>>
         /\ groups' = groups
         /\ groupsCache'.val = ManagerView]_vars

\* C9, amended: when getGroups() yields MAX_GROUPS groups addGroup returns
\* false and logs nothing; it writes no key but for the write-back of
\* getGroups, which happens when the cache is unset and a stored group has no
\* version; the stored and the cached groups keep their ids, names, colors
\* and order.
AddGroupAtLimit ==
    [][lastOp'.op = "addGroup" /\ Len(ManagerView) = MAX_GROUPS =>
         /\ lastOp'.ret = "false"
         /\ lastOp'.log = <<>>
         /\ \/ lastOp'.wr = <<>>
            \/ /\ lastOp'.wr = <<"groups">>
               /\ ~groupsCache.set
               /\ \E k \in 1..Len(groups) : ~Truthy(ParseGroup(groups[k]).version)
         /\ MapSeq(groups', GroupEntryOfText) = MapSeq(groups, GroupEntryOfText)
         /\ groupsCache'.set
         /\ MapSeq(groupsCache'.val, GroupEntry) = MapSeq(ManagerView, GroupEntry)]_vars

\* addGroup was refused at the limit and wrote the groups back
RefusedWithWriteBack ==
    /\ lastOp.op = "addGroup" /\ lastOp.pre = MAX_GROUPS
    /\ lastOp.ret = "false"
    /\ lastOp.wr = <<"groups">>
    /\ Len(groups) = MAX_GROUPS

\* C10: after clearAll a getParsed yields the empty sequence, and clearAll
\* wrote the store exactly once.
ClearAllEmpties ==
    lastOp.op = "clearAll" =>
        /\ lastOp.wr = <<"todos">>
        /\ GetParsed(Cur).tc.val = <<>>

\* clearAll ran while the cache held two tasks or more
ClearedCachedTasks ==
    /\ lastOp.op = "clearAll" /\ lastOp.pre >= 2
    /\ todos = <<>>

\* the index at which the array r holds the text that ts holds at index
IndexIn(r, ts, index) ==
    IF index \in 0..(Len(ts) - 1)
    THEN (CHOOSE k \in 1..Len(r) : r[k] = ts[index + 1]) - 1
    ELSE index

\* C11, as stated: moveTaskToEndOfGroup applied twice with the same index
\* gives the array it gives applied once.
MoveIdempotentAtIndex ==
    \A i \in -1..Len(todos) :
        MoveTaskToEndOfGroup(MoveTaskToEndOfGroup(todos, i), i) =
            MoveTaskToEndOfGroup(todos, i)

\* C11, amended: moveTaskToEndOfGroup applied again at the index the moved
\* task now has (the same index when the index names no task) gives the
\* array it gave the first time.
MoveIdempotentOnTask ==
    \A i \in -1..Len(todos) :
        LET r == MoveTaskToEndOfGroup(todos, i)
        IN  MoveTaskToEndOfGroup(r, IndexIn(r, todos, i)) = r

\* after a move, an array on which a second move with the same index moves
\* another task
SecondMoveTakesAnother ==
    /\ lastOp.op = "moveToEnd"
    /\ \E i \in 0..(Len(todos) - 1) :
         LET r == MoveTaskToEndOfGroup(todos, i)
         IN  /\ r # todos
             /\ MoveTaskToEndOfGroup(r, i) # r
             /\ MoveTaskToEndOfGroup(r, IndexIn(r, todos, i)) = r

MoveUnfocuses ==
    [][lastOp'.op = "moveToEnd" /\ todos' # todos =>
         \A k \in 1..Len(todos') :
             ParseTask(todos'[k]).id = lastOp'.id =>
                 ParseTask(todos'[k]).isFocused # "true"]_vars

\* C14: remove(index) with an index that names no stored task writes no
\* key, leaves todos as it is, logs nothing and raises no error.
RemoveOutOfRangeSilent ==
    [][lastOp'.op = "remove" /\ lastOp'.idx \notin 0..(Len(todos) - 1) =>
         /\ lastOp'.wr = <<>>
         /\ lastOp'.log = <<>>
         /\ todos' = todos
         /\ lastOp'.ret # "throws"]_vars

\* C15: update(index, task) with an index that names no stored task writes
\* no key, leaves todos as it is, logs nothing and raises no error.
UpdateOutOfRangeSilent ==
    [][lastOp'.op = "update" /\ lastOp'.idx \notin 0..(Len(todos) - 1) =>
         /\ lastOp'.wr = <<>>
         /\ lastOp'.log = <<>>
         /\ todos' = todos
         /\ lastOp'.ret # "throws"]_vars

\* a call that did what it was asked to: remove and update of a stored
\* index, addGroup, updateGroup and removeGroup that returned true
Succeeded(op) ==
    /\ op.ret # "throws"
    /\ op.op \in {"remove", "update"} => op.wr # <<>>
    /\ op.op \in {"addGroup", "updateGroup", "removeGroup"} => op.ret = "true"

\* the keys a successful call writes itself, in order
OwnWrites(op) ==
    IF op \in {"add", "remove", "update", "clearAll"} THEN <<"todos">>
    ELSE IF op \in {"addGroup", "updateGroup"} THEN <<"groups">>
    ELSE <<"todos", "groups">>

Mutations == {"add", "remove", "update", "clearAll", "addGroup", "updateGroup", "removeGroup"}

GroupsNeedSave ==
    /\ ~groupsCache.set
    /\ \E k \in 1..Len(groups) : ~Truthy(ParseGroup(groups[k]).version)

TaskKey(t) == <<t.id, t.name, t.isDone>>

\* C17: after getParsed() no stored task lacks a version and the call wrote
\* the store at most once; what the listener of the write-back read, and
\* what a further getParsed() reads with the cache held or unset, has the
\* ids, names, isDone and order of what the call returned, and the further
\* read writes nothing.
MigrationOnce ==
    lastOp.op = "getParsed" =>
        /\ \A k \in 1..Len(todos) : Truthy(ParseTask(todos[k]).version)
        /\ Len(lastOp.wr) <= 1
        /\ tasksCache.set
        /\ \A k \in 1..Len(lastOp.inner) :
               MapSeq(lastOp.inner[k], TaskKey) = MapSeq(tasksCache.val, TaskKey)
        /\ \A s \in {Cur, [Cur EXCEPT !.tc = NoCache]} :
               /\ GetParsed(s).wr = <<>>
               /\ MapSeq(GetParsed(s).tc.val, TaskKey) = MapSeq(tasksCache.val, TaskKey)

\* a getParsed() migrated two tasks, wrote them back and was re-entered from
\* the write's signal
MigratedAndReentered ==
    /\ lastOp.op = "getParsed" /\ lastOp.wr = <<"todos">>
    /\ Len(lastOp.inner) = 1
    /\ Len(todos) >= 2
    /\ nextTask >= 2

\* C18: getTotalUndone('inbox') returns the number of tasks with isDone false
\* whose groupId is absent or 'inbox', and getTotalUndone() the number of all
\* tasks with isDone false.
UndoneCountsAbsentAsInbox ==
    lastOp.op = "getTotalUndone" =>
        lastOp.ret = ToString(Cardinality(
            {k \in 1..Len(tasksCache.val) :
                /\ ~Truthy(tasksCache.val[k].isDone)
                /\ \/ ~Truthy(lastOp.name)
                   \/ OrElse(tasksCache.val[k].groupId, "inbox") = lastOp.name}))

\* the events of a call that report a change of the field
EventsOf(calls, field) ==
    LET actions == CASE field = "name" -> {"renamed"}
                     [] field = "isDone" -> {"completed", "uncompleted"}
                     [] field = "isFocused" -> {"focused", "unfocused"}
                     [] field = "groupId" -> {"moved_group"}
    IN  {k \in 1..Len(calls) : calls[k].action \in actions}

OwnEvent(op) ==
    CASE op = "add" -> "added"
      [] op = "remove" -> "removed"
      [] op = "clearAll" -> "cleared_all"
      [] op = "addGroup" -> "group_created"
      [] op = "removeGroup" -> "group_deleted"

\* C20: a manager call that runs while enable-history is false appends no
\* history entry, and one that runs while it is true appends every event it
\* passes to _logIfEnabled (one 'added', 'removed', 'cleared_all',
\* 'group_created' or 'group_deleted' for a successful add, remove, clearAll,
\* addGroup or removeGroup), whatever the setting was when the manager was
\* constructed.
HistoryGate ==
    lastOp.op # "enable-history" =>
        /\ ~enableHistory => lastOp.log = <<>>
        /\ enableHistory => lastOp.log = lastOp.calls
        /\ (lastOp.op \in {"add", "remove", "clearAll", "addGroup", "removeGroup"}
              /\ Succeeded(lastOp))
             => /\ Len(lastOp.calls) = 1
                /\ lastOp.calls[1].action = OwnEvent(lastOp.op)

\* a manager constructed with history off appended 'added' after the switch
\* was turned on
LoggedAfterSwitchOn ==
    /\ lastOp.op = "add"
    /\ enableHistory
    /\ Len(lastOp.log) = 1 /\ lastOp.log[1].action = "added"

\* the filter after n cycles from currentFilter over the groups gs
RECURSIVE CycleTimes(_, _, _)
CycleTimes(gs, currentFilter, n) ==
    IF n = 0 THEN currentFilter ELSE NextFilter(gs, CycleTimes(gs, currentFilter, n - 1))

\* C21: a click on the filter header selects the first group from the empty
\* filter, group k+1 from group k, and All from the last group or from an id
\* that names no group; over the groups the manager returns, k cycles from
\* All select group k and |groups|+1 cycles return to All.
FilterCycle ==
    [][lastOp'.op = "cycleFilter" =>
         LET gs == GetGroups(Cur).gc.val
             ids == [k \in 1..Len(gs) |-> gs[k].id]
             current == ext.filterGroup
             selected == ext'.filterGroup
         IN  /\ current = "" /\ Len(ids) > 0 => selected = ids[1]
             /\ \A k \in 1..(Len(ids) - 1) : current = ids[k] => selected = ids[k + 1]
             /\ Len(ids) > 0 /\ current = ids[Len(ids)] => selected = ""
             /\ current # "" /\ current \notin Range(ids) => selected = ""
             /\ \A k \in 1..Len(ids) : CycleTimes(gs, "", k) = ids[k]
             /\ CycleTimes(gs, "", Len(ids) + 1) = ""
    ]_vars

\* the filter named a group deleted in the preferences window, and the click
\* returned to All
CycledFromDeletedGroup ==
    /\ lastOp.op = "cycleFilter"
    /\ lastOp.id = OldGroupId(1)
    /\ \A k \in 1..Len(groupsCache.val) : groupsCache.val[k].id # lastOp.id
    /\ ext.filterGroup = ""

\* C22: when no change signal of a write of the preferences window is
\* queued, getParsed() and getGroups() return what the store value of their
\* key parses and migrates to, whether or not a cache is held.
CacheCoherent ==
    (~groupsStale /\ ~todosStale) =>
        /\ GetParsed(Cur).tc.val = GetParsed([Cur EXCEPT !.tc = NoCache]).tc.val
        /\ GetGroups(Cur).gc.val = GetGroups([Cur EXCEPT !.gc = NoCache]).gc.val

\* the delivered changed::todos of a clear in the preferences window unset a
\* task cache that held more tasks than the store
ClearInvalidatedCache ==
    /\ lastOp.op = "changed::todos" /\ lastOp.id = "prefs"
    /\ lastOp.pre > Len(todos)
    /\ ~tasksCache.set
    /\ ~groupsStale

\* C23: when the menu opens, the list is rebuilt if it was never built or
\* the todos or groups key differs from what the list was last built from
\* (and the change has been signalled), and it is not rebuilt if neither key
\* has changed since the last rebuild.
LazyRebuild ==
    [][(lastOp'.op = "open-state-changed" /\ ext'.menuOpen) =>
         LET changed == ext.built # <<[todos |-> todos, groups |-> groups]>>
         IN  /\ (changed /\ ~todosStale /\ ~groupsStale) => lastOp'.ret = "rebuilt"
             /\ ~changed => lastOp'.ret # "rebuilt"
    ]_vars

\* C24: whenever the extension is disabled (before enable(), and after
\* disable() that followed an enable() that succeeded or entered error mode)
\* no handler of the settings, of the menu or of the manager, no keybinding
\* and no confirmation timeout is registered.
DisabledIsClean ==
    ext.mode = "off" => (ext.handlers = {} /\ ext.timeout = 0)

\* disable() after an enable() that threw in _buildPopupMenu or
\* _toggleShortcut, with four handlers connected by then
DisabledFromErrorMode ==
    /\ lastOp.op = "disable"
    /\ lastOp.pre = 4
    /\ ext.mode = "off" /\ ext.handlers = {}

\* C25: a click on a row (toggle done, focus, remove and its confirmation,
\* rename) leaves every stored task other than the one the row displays in
\* the store with the text it had.
RowActsOnDisplayedTask ==
    [][lastOp'.op \in RowOps =>
          \A k \in 1..Len(todos) :
              ParseTask(todos[k]).id # lastOp'.id =>
                  \E j \in 1..Len(todos') : todos'[j] = todos[k]]_vars

\* C26: when an edit started by the rename button of a row ends (Enter with
\* the text kept, with a new text or with no text, or the input losing the
\* focus), a stored task carries the original name or the text committed.
RenameKeepsTask ==
    [][(ext.isEditing /\ lastOp'.op \in {"activate", "key-focus-out"}) =>
          \E k \in 1..Len(todos') :
              ParseTask(todos'[k]).name \in {ext.input, lastOp'.name} \ {""}]_vars

\* C27: the response 'clear' of the clear dialog of a group leaves in the
\* store exactly the tasks the store held before it whose effective group
\* is another group, in their order.
ClearRemovesExactlyGroup ==
    [][lastOp'.op = "prefs.clear" =>
          LET Remains(t) == EffectiveGroup(t) # lastOp'.id
          IN  todos' = FilterSeq(todos, Remains)]_vars

\* the stored tasks that are not done, of the filter group when one is set
StoredUndone(filterGroup) ==
    Cardinality({k \in 1..Len(todos) :
                    /\ ~Truthy(ParseTask(todos[k]).isDone)
                    /\ filterGroup = "" \/ EffectiveGroup(todos[k]) = filterGroup})

\* C28: while the extension is enabled and no signal of a write of the
\* preferences window is still queued, the count on the panel button is the
\* number of stored tasks that are not done, of the filter group when a
\* filter is set.
PanelCount ==
    (ext.mode = "on" /\ ~todosStale /\ ~groupsStale) =>
        ext.buttonText = StoredUndone(ext.filterGroup)

\* C29: at most one confirmation item exists at a time, and the callback of
\* the timeout destroys no item but the one it was armed for, and none that
\* was destroyed before.
OwnConfirmationOnly ==
    [][/\ Cardinality(ext.live') <= 1
       /\ lastOp'.op = "timeout" =>
              /\ ext.live \ ext.live' \subseteq {ext.timeout}
              /\ lastOp'.ret # "destroyed again"]_vars

\* C30: after every call of add or update with the id of a stored group, of
\* addGroup, updateGroup or removeGroup, the effective group of every stored
\* task is a stored group; removeGroup writes todos before groups, and the
\* tasks it wrote are in groups stored before its write of groups.
TasksInStoredGroups ==
    [][/\ \A k \in 1..Len(todos') :
              EffectiveGroup(todos'[k]) \in {ParseGroup(groups'[j]).id : j \in 1..Len(groups')}
       /\ (lastOp'.op = "removeGroup" /\ lastOp'.ret = "true") =>
              /\ Len(lastOp'.wr) >= 2
              /\ SubSeq(lastOp'.wr, Len(lastOp'.wr) - 1, Len(lastOp'.wr)) = <<"todos", "groups">>
              /\ \A k \in 1..Len(todos') : EffectiveGroup(todos'[k]) \in StoredGroupIds]_vars

\* removeGroup removed a group that held a task, which is in the inbox now
RemovedGroupWithTask ==
    /\ lastOp.op = "removeGroup" /\ lastOp.ret = "true" /\ lastOp.id = OldGroupId(1)
    /\ \E k \in 1..Len(todos) :
           /\ ParseTask(todos[k]).id = TaskId(1)
           /\ ParseTask(todos[k]).groupId = "inbox"
           /\ \A j \in 1..Len(todos) : ParseTask(todos[j]).groupId # Undefined

====
